---- MODULE Spec2Model ----
(***************************************************************************)
(* Market Fire Watch: the credential store (auth.py), the watchlist store  *)
(* of the main window (login, logout, add, remove, load, save), the chart  *)
(* page (toggles, indicator columns) and the news fetch of the home page.  *)
(*                                                                         *)
(* Text typed by the user is a sequence of one-character strings, so that  *)
(* upper(), split(',') and strip() are computed character by character.    *)
(* Usernames and passwords are compared whole (dict lookup, ==) and are     *)
(* plain strings.  A JSON file holding a list of strings is the list.      *)
(* Python's True, False and None are the strings "True", "False", "None".  *)
(*                                                                         *)
(* A handler runs only while its page is the one shown.  Of the pages, the *)
(* login page and the home page are modelled; style sheets, the menu and   *)
(* the drawing of the watchlist (update_watchlist_display) write none of   *)
(* the variables below and are left out.                                   *)
(***************************************************************************)
EXTENDS Integers, Sequences, FiniteSets, TLC

VARIABLES
    users,          \* users.json: username -> [password |-> ...]
    files,          \* "{username}_watchlist.json": [exists, content]
    current_user,   \* Auth.current_user
    watchlist,      \* MainWindow.watchlist
    page,           \* the widget shown by MainWindow.central_widget
    login_error,    \* LoginPage.error_label text
    stock_entry,    \* HomePage.stock_entry text
    home_error,     \* HomePage.error_label text
    ret,            \* value returned by the latest call of an Auth method
    validated,      \* tickers passed to is_valid_ticker by the latest add or remove
    data,           \* StockDetailsPage.data: the bars fetched last; <<>> for None
    sma_spinbox,    \* StockDetailsPage.sma_spinbox value
    ema_spinbox,    \* StockDetailsPage.ema_spinbox value
    show_rsi,       \* StockDetailsPage.show_rsi
    show_adx,       \* StockDetailsPage.show_adx
    displayed_lines,\* StockDetailsPage.displayed_lines
    plot,           \* the columns and the lower panel of the latest plot_data
    args,           \* the indicator function called last and its arguments
    result,         \* what that call returned
    news_state,     \* how far HomePage.update_news_display has come
    response,       \* what requests.get did in NewsFetcher.get_news
    news_labels,    \* HomePage.news_labels: one (title, link) per frame
    current_news_index, \* HomePage.current_news_index
    no_news_label,  \* whether the "No news available" label was added
    news_timer,     \* whether HomePage.news_timer was started
    exception       \* the exception that no handler caught, or None

main_vars == <<users, files, current_user, watchlist, page, login_error,
               stock_entry, home_error, ret, validated>>

details_vars == <<data, sma_spinbox, ema_spinbox, show_rsi, show_adx,
                  displayed_lines, plot>>

engine_vars == <<args, result>>

news_vars == <<news_state, response, news_labels, current_news_index,
               no_news_label, news_timer, exception>>

vars == <<main_vars, details_vars, engine_vars, news_vars>>

-----------------------------------------------------------------------------
(* Inputs *)

None == "None"

Usernames == {"bob", "Bob"}

Passwords == {"pw1", "pw2"}

WatchUsers == {"bob"}

WatchPasswords == {"pw1"}

FileKeys == Usernames \cup {None}

Base ==
    << <<"A">>, <<"B">>, <<"C">>, <<"D">>, <<"E">>, <<"F">>, <<"G">>, <<"H">>,
       <<"I">>, <<"J">>, <<"K">>, <<"L">>, <<"M">>, <<"N">>, <<"O">>, <<"P">>,
       <<"Q">>, <<"R">>, <<"S">>, <<"T">>, <<"U">>, <<"V">>, <<"W">>, <<"X">> >>

\* entries a user may type between the commas
RawEntries == { <<"z">>, <<"Z", " ">> }

\* number of comma-separated entries of the generated short inputs
MaxShort == 2

ShortLists == UNION { [1..n -> RawEntries] : n \in 0..MaxShort }

\* "z, zz,b,Z ,zZ"
FiveEntries ==
    << <<"z">>, <<" ", "z", "z">>, <<"b">>, <<"Z", " ">>, <<"z", "Z">> >>

\* "z,zz,qq,a,b,c"
SixEntries ==
    << <<"z">>, <<"z", "z">>, <<"q", "q">>, <<"a">>, <<"b">>, <<"c">> >>

\* "z,, , ,,zz": six entries, two tickers
SixRawEntries ==
    << <<"z">>, <<>>, <<" ">>, <<" ">>, <<>>, <<"z", "z">> >>

LongLists == { FiveEntries, SixEntries, SixRawEntries }

RemoveInputs == { <<"A">>, <<"Z">> }

SessionAddInputs == { <<"z">> }

SessionRemoveInputs == { <<"Z">> }

-----------------------------------------------------------------------------
(* str methods *)

Upper(c) ==
    CASE c = "a" -> "A"
      [] c = "b" -> "B"
      [] c = "c" -> "C"
      [] c = "q" -> "Q"
      [] c = "z" -> "Z"
      [] OTHER   -> c

UpperStr(s) == [i \in 1..Len(s) |-> Upper(s[i])]

IsSpace(c) == c \in {" ", "\t", "\n"}

RECURSIVE Split(_)
Split(s) ==
    IF \A i \in 1..Len(s) : s[i] # ","
    THEN <<s>>
    ELSE LET k == CHOOSE i \in 1..Len(s) :
                      s[i] = "," /\ \A j \in 1..(i - 1) : s[j] # ","
         IN  <<SubSeq(s, 1, k - 1)>> \o Split(SubSeq(s, k + 1, Len(s)))

Strip(s) ==
    LET keep == { i \in 1..Len(s) : ~IsSpace(s[i]) }
    IN  IF keep = {} THEN <<>>
        ELSE LET lo == CHOOSE i \in keep : \A j \in keep : i <= j
                 hi == CHOOSE i \in keep : \A j \in keep : j <= i
             IN  SubSeq(s, lo, hi)

RECURSIVE Join(_, _)
Join(list, sep) ==
    IF list = <<>> THEN <<>>
    ELSE IF Len(list) = 1 THEN list[1]
    ELSE list[1] \o sep \o Join(Tail(list), sep)

Range(s) == { s[i] : i \in 1..Len(s) }

AddInputs == { Join(es, <<",">>) : es \in ShortLists \cup LongLists }

-----------------------------------------------------------------------------
(* auth.py *)

\* a register that does not look the username up first
AuthRegister_overwrite(username, password) ==
    [ret |-> "True",
     users |-> [u \in DOMAIN users \cup {username} |->
                   IF u = username THEN [password |-> password]
                   ELSE users[u]]]

\* Auth.register: the returned value and the store it leaves in users.json
AuthRegister(username, password) ==
    IF username \in DOMAIN users
    THEN [ret |-> "False", users |-> users]
    ELSE [ret |-> "True",
          users |-> [u \in DOMAIN users \cup {username} |->
                        IF u = username THEN [password |-> password]
                        ELSE users[u]]]

\* a login that records the username even when it fails
AuthLogin_setsuser(username, password) ==
    IF username \in DOMAIN users /\ users[username].password = password
    THEN [ret |-> "True", current_user |-> username]
    ELSE [ret |-> "False", current_user |-> username]

\* a login that compares no password
AuthLogin_anypw(username, password) ==
    IF username \in DOMAIN users
    THEN [ret |-> "True", current_user |-> username]
    ELSE [ret |-> "False", current_user |-> current_user]

\* Auth.login: the returned value and Auth.current_user
AuthLogin(username, password) ==
    IF username \in DOMAIN users /\ users[username].password = password
    THEN [ret |-> "True", current_user |-> username]
    ELSE [ret |-> "False", current_user |-> current_user]

\* a change_password that compares no current password
AuthChangePassword_nocheck(username, current_password, new_password) ==
    IF username \in DOMAIN users
    THEN [ret |-> "True",
          users |-> [users EXCEPT ![username] = [password |-> new_password]]]
    ELSE [ret |-> "False", users |-> users]

\* Auth.change_password: the returned value and the store it leaves
AuthChangePassword(username, current_password, new_password) ==
    IF username \in DOMAIN users
       /\ users[username].password = current_password
    THEN [ret |-> "True",
          users |-> [users EXCEPT ![username] = [password |-> new_password]]]
    ELSE [ret |-> "False", users |-> users]

-----------------------------------------------------------------------------
(* MainWindow *)

Absent == [exists |-> FALSE, content |-> <<>>]

\* a load without the branch for the missing file
load_watchlist_keep(username) ==
    IF files[username].exists THEN files[username].content ELSE watchlist

\* MainWindow.load_watchlist: the list it leaves in self.watchlist
load_watchlist(username) ==
    IF files[username].exists THEN files[username].content ELSE <<>>

\* a save whose file name leaves the username out
save_watchlist_shared(username, list) ==
    [files EXCEPT ![None] = [exists |-> TRUE, content |-> list]]

\* MainWindow.save_watchlist: the files after json.dump(self.watchlist)
save_watchlist(username, list) ==
    [files EXCEPT ![username] = [exists |-> TRUE, content |-> list]]

\* a logout that saves the watchlist after it cleared the current user
logout_saves ==
    /\ page = "home"
    /\ current_user' = None
    /\ files' = save_watchlist(None, watchlist)
    /\ page' = "login"
    /\ UNCHANGED <<users, watchlist, login_error, stock_entry, home_error,
                   ret, validated>>
    /\ UNCHANGED <<details_vars, engine_vars, news_vars>>

\* MainWindow.logout (menu action, present once the home page was shown)
logout ==
    /\ page = "home"
    /\ current_user' = None
    /\ page' = "login"
    /\ UNCHANGED <<users, files, watchlist, login_error, stock_entry,
                   home_error, ret, validated>>
    /\ UNCHANGED <<details_vars, engine_vars, news_vars>>

-----------------------------------------------------------------------------
(* LoginPage *)

InvalidLogin == "Invalid username or password."

\* a login page that tells an unknown username from a wrong password
login_distinct(username, password) ==
    LET r == AuthLogin(username, password) IN
    /\ page = "login"
    /\ ret' = r.ret
    /\ IF r.ret = "True"
       THEN /\ login_error' = ""
            /\ current_user' = username
            /\ watchlist' = load_watchlist(username)
            /\ page' = "home"
       ELSE /\ login_error' = IF username \in DOMAIN users
                              THEN "Wrong password."
                              ELSE "Unknown username."
            /\ current_user' = r.current_user
            /\ UNCHANGED <<watchlist, page>>
    /\ UNCHANGED <<users, files, stock_entry, home_error, validated>>
    /\ UNCHANGED <<details_vars, engine_vars, news_vars>>

\* LoginPage.login
login(username, password) ==
    LET r == AuthLogin(username, password) IN
    /\ page = "login"
    /\ ret' = r.ret
    /\ IF r.ret = "True"
       THEN /\ login_error' = ""
            /\ current_user' = username
            /\ watchlist' = load_watchlist(username)
            /\ page' = "home"
       ELSE /\ login_error' = InvalidLogin
            /\ current_user' = r.current_user
            /\ UNCHANGED <<watchlist, page>>
    /\ UNCHANGED <<users, files, stock_entry, home_error, validated>>
    /\ UNCHANGED <<details_vars, engine_vars, news_vars>>

\* LoginPage.register
register(username, password) ==
    LET r == AuthRegister(username, password) IN
    /\ page = "login"
    /\ ret' = r.ret
    /\ users' = r.users
    /\ login_error' = IF r.ret = "True"
                      THEN "Registration successful. Please login."
                      ELSE "Username already taken."
    /\ UNCHANGED <<files, current_user, watchlist, page, stock_entry,
                   home_error, validated>>
    /\ UNCHANGED <<details_vars, engine_vars, news_vars>>

\* Auth.change_password, called on the Auth object
change_password(username, current_password, new_password) ==
    LET r == AuthChangePassword(username, current_password, new_password) IN
    /\ ret' = r.ret
    /\ users' = r.users
    /\ UNCHANGED <<files, current_user, watchlist, page, login_error,
                   stock_entry, home_error, validated>>
    /\ UNCHANGED <<details_vars, engine_vars, news_vars>>

-----------------------------------------------------------------------------
(* HomePage *)

MaxPerAdd == 5

MaxWatchlist == 25

TooMany == <<"You can add up to 5 tickers at a time.">>

\* f"Invalid ticker(s): {', '.join(invalid_tickers)}, try again."
InvalidText(invalid_tickers) ==
    <<"Invalid ticker(s): ">> \o Join(invalid_tickers, <<",", " ">>)
        \o <<", try again.">>

\* the two statements that turn the entry's text into the list of tickers
ParseTickers(text) ==
    LET parts == Split(UpperStr(text))
        stripped == [i \in 1..Len(parts) |-> Strip(parts[i])]
    IN  SelectSeq(stripped, LAMBDA t : t # <<>>)

\* a loop that does not test the size of the watchlist
RECURSIVE AddLoop_nocap(_, _, _, _)
AddLoop_nocap(tickers, valid, i, st) ==
    IF i > Len(tickers) THEN st
    ELSE LET ticker == tickers[i] IN
         IF Len(ticker) > 0 /\ ticker \notin Range(st.watchlist)
         THEN IF valid[i]
              THEN AddLoop_nocap(tickers, valid, i + 1,
                     [st EXCEPT !.watchlist = Append(@, ticker),
                                !.validated = Append(@, ticker)])
              ELSE AddLoop_nocap(tickers, valid, i + 1,
                     [st EXCEPT !.invalid_tickers = Append(@, ticker),
                                !.validated = Append(@, ticker)])
         ELSE AddLoop_nocap(tickers, valid, i + 1, st)

\* a loop that does not test whether the ticker is present
RECURSIVE AddLoop_nodupcheck(_, _, _, _)
AddLoop_nodupcheck(tickers, valid, i, st) ==
    IF i > Len(tickers) THEN st
    ELSE LET ticker == tickers[i] IN
         IF Len(ticker) > 0 /\ Len(st.watchlist) < MaxWatchlist
         THEN IF valid[i]
              THEN AddLoop_nodupcheck(tickers, valid, i + 1,
                     [st EXCEPT !.watchlist = Append(@, ticker),
                                !.validated = Append(@, ticker)])
              ELSE AddLoop_nodupcheck(tickers, valid, i + 1,
                     [st EXCEPT !.invalid_tickers = Append(@, ticker),
                                !.validated = Append(@, ticker)])
         ELSE AddLoop_nodupcheck(tickers, valid, i + 1, st)

\* a loop that an invalid ticker ends
RECURSIVE AddLoop_break(_, _, _, _)
AddLoop_break(tickers, valid, i, st) ==
    IF i > Len(tickers) THEN st
    ELSE LET ticker == tickers[i] IN
         IF Len(ticker) > 0 /\ ticker \notin Range(st.watchlist)
            /\ Len(st.watchlist) < MaxWatchlist
         THEN IF valid[i]
              THEN AddLoop_break(tickers, valid, i + 1,
                     [st EXCEPT !.watchlist = Append(@, ticker),
                                !.validated = Append(@, ticker)])
              ELSE [st EXCEPT !.invalid_tickers = Append(@, ticker),
                              !.validated = Append(@, ticker)]
         ELSE AddLoop_break(tickers, valid, i + 1, st)

\* the for loop from its i-th ticker on; valid[i] is what is_valid_ticker
\* answers for the i-th ticker if it is asked
RECURSIVE AddLoop(_, _, _, _)
AddLoop(tickers, valid, i, st) ==
    IF i > Len(tickers) THEN st
    ELSE LET ticker == tickers[i] IN
         IF Len(ticker) > 0 /\ ticker \notin Range(st.watchlist)
            /\ Len(st.watchlist) < MaxWatchlist
         THEN IF valid[i]
              THEN AddLoop(tickers, valid, i + 1,
                     [st EXCEPT !.watchlist = Append(@, ticker),
                                !.validated = Append(@, ticker)])
              ELSE AddLoop(tickers, valid, i + 1,
                     [st EXCEPT !.invalid_tickers = Append(@, ticker),
                                !.validated = Append(@, ticker)])
         ELSE AddLoop(tickers, valid, i + 1, st)

\* a test that lets one ticker too many through
TooManyTickers_offbyone(tickers) == Len(tickers) > MaxPerAdd + 1

\* what is_valid_ticker may answer for each ticker of the text
AddOracles(text) == [1..Len(ParseTickers(text)) -> BOOLEAN]

\* the test that rejects the whole entry
TooManyTickers(tickers) == Len(tickers) > MaxPerAdd

\* HomePage.add_to_watchlist_from_entry, on the text the user left in the
\* entry
add_to_watchlist_from_entry(text, valid) ==
    LET tickers == ParseTickers(text) IN
    /\ page = "home"
    /\ stock_entry' = text
    /\ IF TooManyTickers(tickers)
       THEN /\ home_error' = TooMany
            /\ validated' = <<>>
            /\ UNCHANGED <<watchlist, files>>
       ELSE LET st == AddLoop(tickers, valid, 1,
                        [watchlist |-> watchlist, invalid_tickers |-> <<>>,
                         validated |-> <<>>])
            IN  /\ watchlist' = st.watchlist
                /\ validated' = st.validated
                /\ home_error' = IF st.invalid_tickers # <<>>
                                 THEN InvalidText(st.invalid_tickers)
                                 ELSE <<>>
                /\ files' = save_watchlist(current_user, st.watchlist)
    /\ UNCHANGED <<users, current_user, page, login_error, ret>>
    /\ UNCHANGED <<details_vars, engine_vars, news_vars>>

\* list.remove(stock): the list without its first occurrence of stock
ListRemove(list, stock) ==
    LET k == CHOOSE i \in 1..Len(list) :
                 list[i] = stock /\ \A j \in 1..(i - 1) : list[j] # stock
    IN  SubSeq(list, 1, k - 1) \o SubSeq(list, k + 1, Len(list))

\* a remove that does not save
remove_from_watchlist_nosave(stock) ==
    /\ page = "home"
    /\ IF stock \in Range(watchlist)
       THEN /\ watchlist' = ListRemove(watchlist, stock)
            /\ UNCHANGED files
       ELSE UNCHANGED <<watchlist, files>>
    /\ validated' = <<>>
    /\ UNCHANGED <<users, current_user, page, login_error, stock_entry,
                   home_error, ret>>
    /\ UNCHANGED <<details_vars, engine_vars, news_vars>>

\* HomePage.remove_from_watchlist
remove_from_watchlist(stock) ==
    /\ page = "home"
    /\ IF stock \in Range(watchlist)
       THEN /\ watchlist' = ListRemove(watchlist, stock)
            /\ files' = save_watchlist(current_user,
                                       ListRemove(watchlist, stock))
       ELSE UNCHANGED <<watchlist, files>>
    /\ validated' = <<>>
    /\ UNCHANGED <<users, current_user, page, login_error, stock_entry,
                   home_error, ret>>
    /\ UNCHANGED <<details_vars, engine_vars, news_vars>>

-----------------------------------------------------------------------------
(* The program after MainWindow() is constructed, over the files an earlier
   run may have left on disk *)

(***************************************************************************)
(* Floating-point values of the indicator columns.  A value is a rational  *)
(* in lowest terms, an infinity or NaN; arithmetic is exact on rationals   *)
(* and follows IEEE 754 at the edges (x/0, 0/0, inf-inf, NaN).  The sign   *)
(* of a zero is not kept: where the code divides by a zero, the sign of    *)
(* the infinity does not reach any returned value.                         *)
(***************************************************************************)
NaN == [k |-> "nan", n |-> 0, d |-> 1]

Inf(sign) == [k |-> "inf", n |-> sign, d |-> 1]

Abs(i) == IF i < 0 THEN -i ELSE i

Sgn(i) == IF i < 0 THEN -1 ELSE IF i > 0 THEN 1 ELSE 0

RECURSIVE GCD(_, _)
GCD(a, b) == IF b = 0 THEN a ELSE GCD(b, a % b)

\* the rational n/d (d # 0) in lowest terms with a positive denominator
Num(n, d) ==
    LET g == GCD(Abs(n), Abs(d))
    IN  [k |-> "num", n |-> (Sgn(d) * n) \div g, d |-> Abs(d) \div g]

IsNum(x) == x.k = "num"

IsNaN(x) == x.k = "nan"

IsInf(x) == x.k = "inf"

Finite(x) == IsNum(x)

Zero == Num(0, 1)

Hundred == Num(100, 1)

FNeg(x) == IF IsNaN(x) THEN NaN ELSE [x EXCEPT !.n = -x.n]

FAbs(x) == IF IsNaN(x) THEN NaN ELSE [x EXCEPT !.n = Abs(x.n)]

FAdd(x, y) ==
    IF IsNaN(x) \/ IsNaN(y) THEN NaN
    ELSE IF IsInf(x) /\ IsInf(y) THEN (IF x.n = y.n THEN x ELSE NaN)
    ELSE IF IsInf(x) THEN x
    ELSE IF IsInf(y) THEN y
    ELSE Num(x.n * y.d + y.n * x.d, x.d * y.d)

FSub(x, y) == FAdd(x, FNeg(y))

FMul(x, y) ==
    IF IsNaN(x) \/ IsNaN(y) THEN NaN
    ELSE IF IsInf(x) \/ IsInf(y)
         THEN (IF x.n = 0 \/ y.n = 0 THEN NaN ELSE Inf(Sgn(x.n) * Sgn(y.n)))
    ELSE Num(x.n * y.n, x.d * y.d)

FDiv(x, y) ==
    IF IsNaN(x) \/ IsNaN(y) THEN NaN
    ELSE IF IsInf(y) THEN (IF IsInf(x) THEN NaN ELSE Zero)
    ELSE IF y.n = 0
         THEN (IF IsNum(x) /\ x.n = 0 THEN NaN ELSE Inf(Sgn(x.n)))
    ELSE IF IsInf(x) THEN Inf(Sgn(x.n) * Sgn(y.n))
    ELSE Num(x.n * y.d, x.d * y.n)

\* x < y and x > y; a comparison with NaN is false
FLt(x, y) ==
    /\ ~IsNaN(x) /\ ~IsNaN(y)
    /\ IF IsInf(x) /\ IsInf(y) THEN x.n < y.n
       ELSE IF IsInf(x) THEN x.n < 0
       ELSE IF IsInf(y) THEN y.n > 0
       ELSE x.n * y.d < y.n * x.d

FGt(x, y) == FLt(y, x)

(***************************************************************************)
(* pandas.Series operations used by the indicator functions; a series is   *)
(* a sequence of values, index 0 of the code is index 1 here.              *)
(***************************************************************************)
\* a column that is NaN in every row (pd.Series(dtype=float) assigned to a frame)
AllNaN(len) == [i \in 1..len |-> NaN]

\* the column of a frame of bars as a float series
Column(bars, name) == [i \in 1..Len(bars) |-> Num(bars[i][name], 1)]

\* Series.shift()
Shift(x) == [i \in 1..Len(x) |-> IF i = 1 THEN NaN ELSE x[i - 1]]

\* Series.diff(1)
Diff(x) == [i \in 1..Len(x) |-> IF i = 1 THEN NaN ELSE FSub(x[i], x[i - 1])]

\* sum and count of the observations of x in lo..hi; rolling windows take
\* NaN and the infinities as missing
RECURSIVE RollSum(_, _, _)
RollSum(x, lo, hi) ==
    IF lo > hi THEN Zero
    ELSE IF IsNum(x[hi]) THEN FAdd(RollSum(x, lo, hi - 1), x[hi])
    ELSE RollSum(x, lo, hi - 1)

RollCount(x, lo, hi) == Cardinality({j \in lo..hi : IsNum(x[j])})

\* Series.rolling(window, min_periods).mean()
RollingMean(x, window, min_periods) ==
    [i \in 1..Len(x) |->
        LET lo  == IF i - window + 1 > 1 THEN i - window + 1 ELSE 1
            cnt == RollCount(x, lo, i)
        IN  IF cnt >= min_periods /\ cnt > 0
            THEN FDiv(RollSum(x, lo, i), Num(cnt, 1))
            ELSE NaN]

\* Series.rolling(window).mean(): min_periods defaults to the window
Rolling(x, window) == RollingMean(x, window, window)

\* Series.ewm(span, adjust=False).mean() of a series without NaN
RECURSIVE EwmAt(_, _, _)
EwmAt(x, span, i) ==
    LET alpha == Num(2, span + 1)
    IN  IF i = 1 THEN x[1]
        ELSE FAdd(FMul(FSub(Num(1, 1), alpha), EwmAt(x, span, i - 1)),
                  FMul(alpha, x[i]))

Ewm(x, span) == [i \in 1..Len(x) |-> EwmAt(x, span, i)]

\* Series.replace([inf, -inf], nan).fillna(0)
FillZero(x) == [i \in 1..Len(x) |-> IF IsNum(x[i]) THEN x[i] ELSE Zero]

\* the largest of a row's values that are not NaN; NaN when there is none
RowMax(a, b, c) ==
    LET vals == {v \in {a, b, c} : ~IsNaN(v)}
    IN  IF vals = {} THEN NaN
        ELSE CHOOSE v \in vals : \A w \in vals : ~FGt(w, v)

(***************************************************************************)
(* StockDetailsPage: the indicator columns                                 *)
(***************************************************************************)
\* plot_data, the SMA column of the spin box
SmaColumn_partial(close, sma_period) ==
    IF sma_period > 0 THEN RollingMean(close, sma_period, 1)
    ELSE AllNaN(Len(close))

SmaColumn(close, sma_period) ==
    IF sma_period > 0 THEN Rolling(close, sma_period)
    ELSE AllNaN(Len(close))

\* plot_data, the EMA column of the spin box
EmaColumn_sma(close, ema_period) ==
    IF ema_period > 0 THEN RollingMean(close, ema_period, 1)
    ELSE AllNaN(Len(close))

EmaColumn(close, ema_period) ==
    IF ema_period > 0 THEN Ewm(close, ema_period)
    ELSE AllNaN(Len(close))

\* calculate_rsi: delta, gain, loss and the two rolling averages
delta(series) == Diff(series)

gain(series) ==
    [i \in 1..Len(series) |->
        IF FGt(delta(series)[i], Zero) THEN delta(series)[i] ELSE Zero]

loss(series) ==
    [i \in 1..Len(series) |->
        FNeg(IF FLt(delta(series)[i], Zero) THEN delta(series)[i] ELSE Zero)]

avg_gain(series, period) == Rolling(gain(series), period)

avg_loss(series, period) == Rolling(loss(series), period)

calculate_rsi(series, period) ==
    [i \in 1..Len(series) |->
        LET rs == FDiv(avg_gain(series, period)[i], avg_loss(series, period)[i])
        IN  FSub(Hundred, FDiv(Hundred, FAdd(Num(1, 1), rs)))]

\* calculate_adx: true range, its average, directional movement
tr(bars) ==
    LET high  == Column(bars, "High")
        low   == Column(bars, "Low")
        close == Column(bars, "Close")
    IN  [i \in 1..Len(bars) |->
            RowMax(FSub(high[i], low[i]),
                   FAbs(FSub(high[i], Shift(close)[i])),
                   FAbs(FSub(low[i], Shift(close)[i])))]

atr(bars, period) == RollingMean(tr(bars), period, 1)

\* Series.diff().clip(lower=0)
plus_dm(bars) ==
    LET dh == Diff(Column(bars, "High"))
    IN  [i \in 1..Len(bars) |-> IF FLt(dh[i], Zero) THEN Zero ELSE dh[i]]

\* Series.diff().clip(upper=0).abs()
minus_dm(bars) ==
    LET dl == Diff(Column(bars, "Low"))
    IN  [i \in 1..Len(bars) |-> FAbs(IF FGt(dl[i], Zero) THEN Zero ELSE dl[i])]

smoothed_plus_dm(bars, period) == RollingMean(plus_dm(bars), period, 1)

smoothed_minus_dm(bars, period) == RollingMean(minus_dm(bars), period, 1)

\* plus_di and minus_di before the infinities and NaN are replaced
plus_di(bars, period) ==
    [i \in 1..Len(bars) |->
        FDiv(FMul(Hundred, smoothed_plus_dm(bars, period)[i]), atr(bars, period)[i])]

minus_di(bars, period) ==
    [i \in 1..Len(bars) |->
        FDiv(FMul(Hundred, smoothed_minus_dm(bars, period)[i]), atr(bars, period)[i])]

dx(bars, period) ==
    [i \in 1..Len(bars) |->
        FMul(Hundred,
             FAbs(FDiv(FSub(plus_di(bars, period)[i], minus_di(bars, period)[i]),
                       FAdd(plus_di(bars, period)[i], minus_di(bars, period)[i]))))]

\* the returned tuple is (adx, plus_di, minus_di)
calculate_adx(bars, period) ==
    << FillZero(RollingMean(dx(bars, period), period, 1)),
       FillZero(plus_di(bars, period)),
       FillZero(minus_di(bars, period)) >>

NoUsers == [u \in {} |-> [password |-> "pw1"]]

\* StockDetailsPage.__init__; no chart was drawn yet
NoPlot == [sma |-> <<>>, ema |-> <<>>, rsi |-> <<>>, adx |-> <<>>,
           plus_di |-> <<>>, minus_di |-> <<>>, panel |-> "none"]

LineNames == {"50-day SMA", "200-day SMA", "12-day EMA",
              "Upper Bollinger Band", "Lower Bollinger Band"}

DetailsInit ==
    /\ data = <<>>
    /\ sma_spinbox = 0
    /\ ema_spinbox = 0
    /\ show_rsi = FALSE
    /\ show_adx = FALSE
    /\ displayed_lines = [n \in LineNames \cup {"Close Price"} |->
                             n = "Close Price"]
    /\ plot = NoPlot

\* no indicator function was called yet
EngineInit ==
    /\ args = [fn |-> None, data |-> <<>>, period |-> 0]
    /\ result = <<>>

\* HomePage.__init__ is through: the request carried no API key, the
\* answer was not a 200 and the home page says that there is no news
NewsDone ==
    /\ news_state = "done"
    /\ response = [kind |-> "answer", status_code |-> 401, articles |-> <<>>]
    /\ news_labels = <<>>
    /\ current_news_index = 0
    /\ no_news_label = TRUE
    /\ news_timer = FALSE
    /\ exception = None

Disks ==
    { [users |-> NoUsers, files |-> [k \in FileKeys |-> Absent]],
      [users |-> [u \in {"bob"} |-> [password |-> "pw1"]],
       files |-> [k \in FileKeys |->
                    IF k = "bob" THEN [exists |-> TRUE, content |-> Base]
                    ELSE Absent]] }

MainInit ==
    /\ \E d \in Disks : users = d.users /\ files = d.files
    /\ current_user = None
    /\ watchlist = <<>>
    /\ page = "login"
    /\ login_error = ""
    /\ stock_entry = <<>>
    /\ home_error = <<>>
    /\ ret = None
    /\ validated = <<>>

Init ==
    /\ MainInit
    /\ DetailsInit
    /\ EngineInit
    /\ NewsDone

\* two users and two passwords, over one-ticker inputs
Next ==
    \/ \E u \in Usernames, p \in Passwords : register(u, p)
    \/ \E u \in Usernames, p \in Passwords : login(u, p)
    \/ \E u \in Usernames, c \in Passwords, n \in Passwords :
           change_password(u, c, n)
    \/ logout
    \/ \E text \in SessionAddInputs :
           \E valid \in AddOracles(text) :
               add_to_watchlist_from_entry(text, valid)
    \/ \E stock \in SessionRemoveInputs : remove_from_watchlist(stock)

Spec == Init /\ [][Next]_vars

\* one user, over every input text of AddInputs
NextWatch ==
    \/ \E u \in WatchUsers, p \in WatchPasswords : register(u, p)
    \/ \E u \in WatchUsers, p \in WatchPasswords : login(u, p)
    \/ \E u \in WatchUsers, c \in WatchPasswords, n \in WatchPasswords :
           change_password(u, c, n)
    \/ logout
    \/ \E text \in AddInputs :
           \E valid \in AddOracles(text) :
               add_to_watchlist_from_entry(text, valid)
    \/ \E stock \in RemoveInputs : remove_from_watchlist(stock)

SpecWatch == Init /\ [][NextWatch]_vars

(***************************************************************************)
(* The indicator functions on their own: Init draws the bars and the       *)
(* period, each action applies one function to them.                       *)
(***************************************************************************)
\* one bar as yfinance returns it: Low <= Close <= High
Bars ==
    { [High |-> 1, Low |-> 1, Close |-> 1],
      [High |-> 2, Low |-> 1, Close |-> 1],
      [High |-> 2, Low |-> 1, Close |-> 2],
      [High |-> 2, Low |-> 2, Close |-> 2] }

MaxBars == 4

Frames == UNION { [1..len -> Bars] : len \in 1..MaxBars }

\* the spin boxes start at 0; the RSI and the ADX take a positive period
Periods == {0, 1, 2}

Closes == Column(args.data, "Close")

\* the program on a first start, before any call
InitIndicator ==
    /\ MainInit
    /\ users = NoUsers
    /\ DetailsInit
    /\ NewsDone
    /\ args \in [fn : {None}, data : Frames, period : Periods]
    /\ result = <<>>

\* each action is one call with the drawn arguments; result is the tuple
\* of the returned columns
sma ==
    /\ args.fn = None
    /\ args' = [args EXCEPT !.fn = "sma"]
    /\ result' = << SmaColumn(Closes, args.period) >>
    /\ UNCHANGED <<main_vars, details_vars, news_vars>>

ema ==
    /\ args.fn = None
    /\ args' = [args EXCEPT !.fn = "ema"]
    /\ result' = << EmaColumn(Closes, args.period) >>
    /\ UNCHANGED <<main_vars, details_vars, news_vars>>

rsi ==
    /\ args.fn = None
    /\ args.period > 0
    /\ args' = [args EXCEPT !.fn = "calculate_rsi"]
    /\ result' = << calculate_rsi(Closes, args.period) >>
    /\ UNCHANGED <<main_vars, details_vars, news_vars>>

adx ==
    /\ args.fn = None
    /\ args.period > 0
    /\ args' = [args EXCEPT !.fn = "calculate_adx"]
    /\ result' = calculate_adx(args.data, args.period)
    /\ UNCHANGED <<main_vars, details_vars, news_vars>>

NextIndicator == sma \/ ema \/ rsi \/ adx

SpecIndicator == InitIndicator /\ [][NextIndicator]_vars

(***************************************************************************)
(* StockDetailsPage: the chart page with its toggles and spin boxes.  The  *)
(* fixed overlays (SMA_50, SMA_200, EMA_12, Bollinger bands) need 12 bars  *)
(* and more and are not drawn for the frames used here; plot records the   *)
(* columns of the spin boxes, the RSI and ADX columns and the lower panel. *)
(***************************************************************************)
\* what yf.download returns: a frame of bars, <<>> when there is no data
ChartFrames ==
    { << [High |-> 2, Low |-> 1, Close |-> 1] >>,
      << [High |-> 1, Low |-> 1, Close |-> 1],
         [High |-> 2, Low |-> 1, Close |-> 2],
         [High |-> 2, Low |-> 2, Close |-> 2] >> }

SpinValues == {0, 2}

\* plot_data computes the RSI and the ADX with this period, from as many bars
IndicatorPeriod == 14

\* toggle_line turns a line on only while fewer lines than this are on
MaxLines == 3

\* bob of the second disk has logged in and opened a stock whose download
\* came back empty
ChartOpened ==
    /\ users = [u \in {"bob"} |-> [password |-> "pw1"]]
    /\ files = [k \in FileKeys |->
                   IF k = "bob" THEN [exists |-> TRUE, content |-> Base]
                   ELSE Absent]
    /\ current_user = "bob"
    /\ watchlist = Base
    /\ page = "details"
    /\ login_error = ""
    /\ stock_entry = <<>>
    /\ home_error = <<>>
    /\ ret = "True"
    /\ validated = <<>>

InitChart ==
    /\ ChartOpened
    /\ DetailsInit
    /\ EngineInit
    /\ NewsDone

\* the chart drawn for frame d, spin box values s and e and the two panel
\* flags; without data the chart stays as it is
plot_data(d, s, e, rsi_on, adx_on) ==
    IF d = <<>> THEN plot
    ELSE LET close == Column(d, "Close")
             enough == Len(d) >= IndicatorPeriod
         IN  [sma      |-> SmaColumn(close, s),
              ema      |-> EmaColumn(close, e),
              rsi      |-> IF enough THEN calculate_rsi(close, IndicatorPeriod)
                           ELSE AllNaN(Len(d)),
              adx      |-> IF enough THEN calculate_adx(d, IndicatorPeriod)[1]
                           ELSE AllNaN(Len(d)),
              plus_di  |-> IF enough THEN calculate_adx(d, IndicatorPeriod)[2]
                           ELSE AllNaN(Len(d)),
              minus_di |-> IF enough THEN calculate_adx(d, IndicatorPeriod)[3]
                           ELSE AllNaN(Len(d)),
              panel    |-> IF rsi_on THEN "RSI"
                           ELSE IF adx_on THEN "ADX" ELSE "none"]

fetch_data(download) ==
    /\ page = "details"
    /\ data' = download
    /\ plot' = plot_data(download, sma_spinbox, ema_spinbox, show_rsi, show_adx)
    /\ UNCHANGED <<sma_spinbox, ema_spinbox, show_rsi, show_adx, displayed_lines>>
    /\ UNCHANGED <<main_vars, engine_vars, news_vars>>

\* the user sets a spin box; nothing is drawn until the next plot_data
set_sma_spinbox(value) ==
    /\ page = "details"
    /\ sma_spinbox' = value
    /\ UNCHANGED <<data, ema_spinbox, show_rsi, show_adx, displayed_lines, plot>>
    /\ UNCHANGED <<main_vars, engine_vars, news_vars>>

set_ema_spinbox(value) ==
    /\ page = "details"
    /\ ema_spinbox' = value
    /\ UNCHANGED <<data, sma_spinbox, show_rsi, show_adx, displayed_lines, plot>>
    /\ UNCHANGED <<main_vars, engine_vars, news_vars>>

\* sum(self.displayed_lines.values())
active_lines == Cardinality({n \in DOMAIN displayed_lines : displayed_lines[n]})

toggle_line_nolimit(line_name) ==
    /\ page = "details"
    /\ displayed_lines' = [displayed_lines EXCEPT ![line_name] = ~@]
    /\ plot' = plot_data(data, sma_spinbox, ema_spinbox, show_rsi, show_adx)
    /\ UNCHANGED <<data, sma_spinbox, ema_spinbox, show_rsi, show_adx>>
    /\ UNCHANGED <<main_vars, engine_vars, news_vars>>

toggle_line(line_name) ==
    /\ page = "details"
    /\ displayed_lines' =
           IF displayed_lines[line_name]
           THEN [displayed_lines EXCEPT ![line_name] = FALSE]
           ELSE IF active_lines < MaxLines
                THEN [displayed_lines EXCEPT ![line_name] = TRUE]
                ELSE displayed_lines
    /\ plot' = plot_data(data, sma_spinbox, ema_spinbox, show_rsi, show_adx)
    /\ UNCHANGED <<data, sma_spinbox, ema_spinbox, show_rsi, show_adx>>
    /\ UNCHANGED <<main_vars, engine_vars, news_vars>>

toggle_rsi_only ==
    /\ page = "details"
    /\ show_rsi' = ~show_rsi
    /\ show_adx' = show_adx
    /\ plot' = plot_data(data, sma_spinbox, ema_spinbox, show_rsi', show_adx')
    /\ UNCHANGED <<data, sma_spinbox, ema_spinbox, displayed_lines>>
    /\ UNCHANGED <<main_vars, engine_vars, news_vars>>

toggle_rsi ==
    /\ page = "details"
    /\ show_rsi' = ~show_rsi
    /\ show_adx' = IF show_rsi' THEN FALSE ELSE show_adx
    /\ plot' = plot_data(data, sma_spinbox, ema_spinbox, show_rsi', show_adx')
    /\ UNCHANGED <<data, sma_spinbox, ema_spinbox, displayed_lines>>
    /\ UNCHANGED <<main_vars, engine_vars, news_vars>>

toggle_adx ==
    /\ page = "details"
    /\ show_adx' = ~show_adx
    /\ show_rsi' = IF show_adx' THEN FALSE ELSE show_rsi
    /\ plot' = plot_data(data, sma_spinbox, ema_spinbox, show_rsi', show_adx')
    /\ UNCHANGED <<data, sma_spinbox, ema_spinbox, displayed_lines>>
    /\ UNCHANGED <<main_vars, engine_vars, news_vars>>

NextChart ==
    \/ \E download \in ChartFrames \cup {<<>>} : fetch_data(download)
    \/ \E value \in SpinValues : set_sma_spinbox(value)
    \/ \E value \in SpinValues : set_ema_spinbox(value)
    \/ \E line_name \in LineNames : toggle_line(line_name)
    \/ toggle_rsi
    \/ toggle_adx

SpecChart == InitChart /\ [][NextChart]_vars

(***************************************************************************)
(* HomePage: the news fetch made while the home page is constructed, and   *)
(* the headline rotation of the timer.                                     *)
(***************************************************************************)
\* a key that an article of the answer does not have
Missing == "Missing"

Articles == [title : {"Fed holds rates", Missing}, url : {"https://n.example/1", Missing}]

MaxArticles == 3

ArticleLists == UNION { [1..len -> Articles] : len \in 0..MaxArticles }

\* what requests.get does: it raises (no connection, time-out), or it returns
\* an answer with a status code; the articles of an answer other than 200
\* are not read
Responses ==
    { [kind |-> "raised", status_code |-> 0, articles |-> <<>>] }
        \cup { [kind |-> "answer", status_code |-> c, articles |-> <<>>] :
                   c \in {401, 429, 500} }
        \cup { [kind |-> "answer", status_code |-> 200, articles |-> a] :
                   a \in ArticleLists }

\* NewsFetcher.get_news on an answer: the (title, url) pairs of a 200, else []
get_news(r) ==
    IF r.status_code = 200
    THEN [i \in 1..Len(r.articles) |->
            << IF r.articles[i].title = Missing THEN "No title" ELSE r.articles[i].title,
               IF r.articles[i].url = Missing THEN "" ELSE r.articles[i].url >>]
    ELSE <<>>

\* HomePage.__init__ has come to its call of update_news_display
InitNews ==
    /\ MainInit
    /\ users = NoUsers
    /\ DetailsInit
    /\ EngineInit
    /\ news_state = "constructing"
    /\ response = [kind |-> "none", status_code |-> 0, articles |-> <<>>]
    /\ news_labels = <<>>
    /\ current_news_index = 0
    /\ no_news_label = FALSE
    /\ news_timer = FALSE
    /\ exception = None

\* update_news_display with r as what requests.get does; an exception of
\* requests.get is caught nowhere and ends the construction of the window
update_news_display(r) ==
    /\ news_state = "constructing"
    /\ response' = r
    /\ IF r.kind = "raised"
       THEN /\ exception' = "ConnectionError"
            /\ news_state' = "raised"
            /\ UNCHANGED <<news_labels, no_news_label, news_timer>>
       ELSE /\ exception' = None
            /\ news_state' = "done"
            /\ news_labels' = get_news(r)
            /\ no_news_label' = (get_news(r) = <<>>)
            /\ news_timer' = (get_news(r) # <<>>)
    /\ UNCHANGED current_news_index
    /\ UNCHANGED <<main_vars, details_vars, engine_vars>>

\* the timer fires
rotate_news_headlines ==
    /\ news_state = "done"
    /\ news_timer
    /\ current_news_index' =
           IF news_labels # <<>> THEN (current_news_index + 1) % Len(news_labels)
           ELSE current_news_index
    /\ UNCHANGED <<news_state, response, news_labels, no_news_label, news_timer,
                   exception>>
    /\ UNCHANGED <<main_vars, details_vars, engine_vars>>

NextNews ==
    \/ \E r \in Responses : update_news_display(r)
    \/ rotate_news_headlines

SpecNews == InitNews /\ [][NextNews]_vars

TypeOK ==
    /\ DOMAIN users \subseteq Usernames
    /\ \A u \in DOMAIN users : users[u].password \in Passwords
    /\ current_user \in Usernames \cup {None}
    /\ page \in {"login", "home", "details"}
    /\ ret \in {"True", "False", None}

-----------------------------------------------------------------------------
(* Credential store *)

\* C1: register(username, password) with a username that is already a key of
\* the store (the very same string; "Bob" is not "bob") returns False, shows
\* "Username already taken." and leaves the whole store as it was, so the
\* password stored for that username is still the earlier one.
C1_RegisterTakenFails ==
    [][\A u \in Usernames, p \in Passwords :
          (register(u, p) /\ u \in DOMAIN users)
              => /\ ret' = "False"
                 /\ login_error' = "Username already taken."
                 /\ users' = users
                 /\ users'[u].password = users[u].password]_vars

\* a register of "bob" has failed while "Bob" is not registered
C1_Witness ==
    /\ ret = "False"
    /\ login_error = "Username already taken."
    /\ DOMAIN users = {"bob"}

\* C2: login(username, password) succeeds exactly when the username is a key
\* of the store and the password equals the stored one, and leaves the store
\* alone; the stored password of a user changes only in a successful
\* register of that user or a successful change_password of that user, and
\* is then the password that call was given.
C2_LoginIffStored ==
    [][/\ \A u \in Usernames, p \in Passwords :
             login(u, p)
                 => /\ (ret' = "True")
                          <=> (u \in DOMAIN users /\ users[u].password = p)
                    /\ (ret' = "True") => (page' = "home" /\ current_user' = u)
                    /\ (ret' = "False") => (page' = "login")
                    /\ users' = users
       /\ \A u \in DOMAIN users' :
             (u \notin DOMAIN users \/ users'[u] # users[u])
                 => /\ ret' = "True"
                    /\ \/ \E p \in Passwords :
                             register(u, p) /\ users'[u].password = p
                       \/ \E c \in Passwords, n \in Passwords :
                             /\ change_password(u, c, n)
                             /\ users'[u].password = n
       /\ DOMAIN users \subseteq DOMAIN users']_vars

\* "bob", whom the disk had with "pw1", is logged in while the store holds
\* "pw2" for it and "pw1" for "Bob"
C2_Witness ==
    /\ page = "home"
    /\ current_user = "bob"
    /\ <<"B">> \in Range(files["bob"].content)
    /\ DOMAIN users = {"bob", "Bob"}
    /\ users["bob"].password = "pw2"
    /\ users["Bob"].password = "pw1"
    /\ login_error = ""
    /\ ret = "True"

\* C3: in one state, a login with an unknown username and a login with a
\* known username and a wrong password lead to the same state: False is
\* returned, the label reads "Invalid username or password.", and the store,
\* the files, the current user, the watchlist and the page are unchanged.
C3_LoginFailuresAlike ==
    [][\A u1 \in Usernames, p1 \in Passwords,
          u2 \in Usernames, p2 \in Passwords :
          (/\ login(u1, p1)
           /\ u1 \notin DOMAIN users
           /\ u2 \in DOMAIN users
           /\ users[u2].password # p2)
              => /\ login(u2, p2)
                 /\ ret' = "False"
                 /\ login_error' = InvalidLogin
                 /\ UNCHANGED <<users, files, current_user, watchlist,
                                page>>]_vars

\* a login has failed in a state with a registered and an unregistered user
C3_Witness ==
    /\ ret = "False"
    /\ login_error = InvalidLogin
    /\ \E u1 \in Usernames, u2 \in Usernames :
           u1 \notin DOMAIN users /\ u2 \in DOMAIN users

\* C4: change_password(username, old, new) returns True exactly when the
\* username is a key of the store and old is its stored password; it then
\* stores new for that username and leaves every other record, and the set
\* of usernames, as they were; otherwise the store is unchanged.
C4_ChangePassword ==
    [][\A u \in Usernames, c \in Passwords, n \in Passwords :
          change_password(u, c, n)
              => LET ok == u \in DOMAIN users /\ users[u].password = c IN
                 /\ (ret' = "True") <=> ok
                 /\ ok => /\ DOMAIN users' = DOMAIN users
                          /\ users'[u].password = n
                          /\ \A v \in DOMAIN users \ {u} : users'[v] = users[v]
                 /\ ~ok => users' = users
                 /\ UNCHANGED files]_vars

\* "bob", whom the disk had with "pw1", now has "pw2" while "Bob" is
\* registered too
C4_Witness ==
    /\ files["bob"].exists
    /\ <<"B">> \in Range(files["bob"].content)
    /\ DOMAIN users = {"bob", "Bob"}
    /\ users["bob"].password = "pw2"
    /\ ret = "True"

-----------------------------------------------------------------------------
(* Watchlist store *)

\* C5: an add whose text parses to more than 5 tickers shows the
\* too-many-tickers message and changes neither the watchlist in memory nor
\* any watchlist file, and asks is_valid_ticker about no ticker.
C5_TooManyRejected ==
    [][\A text \in AddInputs :
          (/\ stock_entry' = text
           /\ Len(ParseTickers(text)) > 5
           /\ \E valid \in AddOracles(text) :
                  add_to_watchlist_from_entry(text, valid))
              => /\ home_error' = TooMany
                 /\ validated' = <<>>
                 /\ UNCHANGED <<watchlist, files>>]_vars

\* the six-ticker text was rejected while the watchlist had room for all six
C5_Witness ==
    /\ stock_entry = Join(SixEntries, <<",">>)
    /\ home_error = TooMany
    /\ validated = <<>>
    /\ page = "home"
    /\ watchlist = <<>>

\* C6: the watchlist in memory and every watchlist file hold at most 25
\* tickers.
C6_AtMost25 ==
    /\ Len(watchlist) <= 25
    /\ \A k \in FileKeys : Len(files[k].content) <= 25

\* the five-ticker text was added to a watchlist of 24: "Z" became the 25th
\* ticker and "ZZ" was left out
C6_Witness ==
    /\ stock_entry = Join(FiveEntries, <<",">>)
    /\ page = "home"
    /\ Len(watchlist) = 25
    /\ watchlist[25] = <<"Z">>
    /\ validated = << <<"Z">> >>
    /\ <<"Z", "Z">> \notin Range(watchlist)

NoDuplicates(list) ==
    \A i \in 1..Len(list), j \in 1..Len(list) : list[i] = list[j] => i = j

\* C7: no ticker occurs twice in the watchlist in memory or in a watchlist
\* file.
C7_NoDuplicates ==
    /\ NoDuplicates(watchlist)
    /\ \A k \in FileKeys : NoDuplicates(files[k].content)

\* "z,Z " was added: the first entry was validated and appended, the second
\* was skipped
C7_Witness ==
    /\ stock_entry = <<"z", ",", "Z", " ">>
    /\ page = "home"
    /\ validated = << <<"Z">> >>
    /\ home_error = <<>>
    /\ <<"Z">> \in Range(watchlist)

\* the entries of list at the positions in where, in the order of list
SeqAt(list, where) ==
    [k \in 1..Cardinality(where) |->
        list[CHOOSE i \in where : Cardinality({j \in where : j <= i}) = k]]

\* a ticker as add leaves it: not empty, no comma, no white space at either
\* end and no lower-case letter
Normalised(ticker) ==
    /\ ticker # <<>>
    /\ ticker[1] # " " /\ ticker[Len(ticker)] # " "
    /\ \A i \in 1..Len(ticker) :
           ticker[i] \notin {",", "a", "b", "c", "q", "z"}

\* the positions add appends, from the sentence of the claim: the entry is
\* not in the watchlist (as loaded, or appended by an earlier entry of this
\* call), fewer than 25 tickers are held, and the validator says yes
Appended(tickers, valid) ==
    LET A[i \in 1..Len(tickers)] ==
            /\ tickers[i] \notin Range(watchlist)
            /\ \A j \in 1..(i - 1) : tickers[j] = tickers[i] => ~A[j]
            /\ Len(watchlist) + Cardinality({j \in 1..(i - 1) : A[j]}) < 25
            /\ valid[i]
    IN  {i \in 1..Len(tickers) : A[i]}

\* the positions add reports as invalid
Reported(tickers, valid) ==
    LET K == Appended(tickers, valid) IN
    {i \in 1..Len(tickers) :
        /\ tickers[i] \notin Range(watchlist)
        /\ \A j \in K : j < i => tickers[j] # tickers[i]
        /\ Len(watchlist) + Cardinality({j \in K : j < i}) < 25
        /\ ~valid[i]}

\* C8: an add of at most 5 tickers appends, in input order, exactly the
\* entries that are absent, find fewer than 25 tickers held and are valid;
\* its message lists exactly the entries that are absent, find fewer than 25
\* held and are not valid (no message when there is none); the other
\* entries are neither appended nor listed, and nobody ahead of an entry
\* keeps it from being handled.  What is appended is trimmed and in upper
\* case.
C8_AddEachTicker ==
    [][\A text \in AddInputs :
          (stock_entry' = text /\ Len(ParseTickers(text)) <= 5)
              => \A valid \in AddOracles(text) :
                   add_to_watchlist_from_entry(text, valid)
                     => LET t == ParseTickers(text)
                            K == Appended(t, valid)
                            V == Reported(t, valid)
                        IN  /\ watchlist' = watchlist \o SeqAt(t, K)
                            /\ home_error' = IF V = {} THEN <<>>
                                             ELSE InvalidText(SeqAt(t, V))
                            /\ validated' = SeqAt(t, K \cup V)
                            /\ \A i \in K : Normalised(t[i])]_vars

\* of "z, zz,b,Z ,zZ" the first entry was invalid and the second, third and
\* fourth were appended to an empty watchlist
C8_Witness ==
    /\ stock_entry = Join(FiveEntries, <<",">>)
    /\ page = "home"
    /\ home_error = InvalidText(<< <<"Z">> >>)
    /\ validated = << <<"Z">>, <<"Z", "Z">>, <<"B">>, <<"Z">> >>
    /\ watchlist = << <<"Z", "Z">>, <<"B">>, <<"Z">> >>

\* C9: remove(ticker) with a ticker that the watchlist does not hold changes
\* neither the watchlist nor any file nor the message; with a ticker that it
\* holds, the watchlist loses that ticker and keeps the others in their
\* order, and the file of the current user is written with that list.
C9_Remove ==
    [][\A stock \in RemoveInputs :
          remove_from_watchlist(stock)
              => IF stock \in Range(watchlist)
                 THEN /\ watchlist'
                            = SelectSeq(watchlist, LAMBDA x : x # stock)
                      /\ files' = [files EXCEPT ![current_user] =
                                      [exists |-> TRUE,
                                       content |-> watchlist']]
                      /\ UNCHANGED home_error
                 ELSE UNCHANGED <<watchlist, files, home_error>>]_vars

\* "A" was removed from the 24 tickers that the disk had for "bob"
C9_Witness ==
    /\ page = "home"
    /\ current_user = "bob"
    /\ watchlist = Tail(Base)
    /\ files["bob"].content = Tail(Base)
    /\ validated = <<>>

\* C10: a step of the home page that changes the watchlist leaves it in the
\* file of the current user; no step taken on the login page writes a file;
\* a login loads the file of the user who logs in; and while the home page
\* is shown the watchlist is what a load of the current user's file gives,
\* so that the watchlist of a user who logs out and in again is the one
\* saved last.
C10_PersistedAfterMutation ==
    [][/\ (page = "home" /\ watchlist' # watchlist)
            => files'[current_user] = [exists |-> TRUE, content |-> watchlist']
       /\ (page = "login") => files' = files
       /\ (page = "login" /\ page' = "home")
            => /\ current_user' \in Usernames
               /\ watchlist' = IF files[current_user'].exists
                               THEN files[current_user'].content
                               ELSE <<>>
       /\ (page' = "home")
            => watchlist' = IF files'[current_user'].exists
                            THEN files'[current_user'].content
                            ELSE <<>>]_vars

\* "bob" has logged out after an add of "Z", and the file holds the
\* watchlist
C10_Witness ==
    /\ page = "login"
    /\ current_user = None
    /\ files["bob"].exists
    /\ <<"Z">> \in Range(files["bob"].content)
    /\ watchlist = files["bob"].content

\* C11: a successful login of a user who has no watchlist file leaves the
\* empty list in memory, whatever the watchlist was (another user's, after
\* that user logged out), shows the home page with no error message and
\* creates no file.
C11_LoginWithoutFile ==
    [][\A u \in Usernames, p \in Passwords :
          (login(u, p) /\ ret' = "True" /\ ~files[u].exists)
              => /\ watchlist' = <<>>
                 /\ login_error' = ""
                 /\ page' = "home"
                 /\ current_user' = u
                 /\ files' = files]_vars

\* "Bob", who has no file, is logged in with an empty watchlist after "bob"
\* added "Z" to a watchlist and logged out
C11_Witness ==
    /\ page = "home"
    /\ current_user = "Bob"
    /\ ~files["Bob"].exists
    /\ watchlist = <<>>
    /\ <<"Z">> \in Range(files["bob"].content)

\* C12: the watchlist file of a user is written only by an add or a remove
\* made on the home page while that user is the current user, who stays the
\* current user; the file named after no user is never written.
C12_FileOwnedByUser ==
    [][\A k \in FileKeys :
          files'[k] # files[k]
              => /\ k \in Usernames
                 /\ page = "home" /\ page' = "home"
                 /\ current_user = k /\ current_user' = k
                 /\ \A j \in FileKeys \ {k} : files'[j] = files[j]
                 /\ files'[k] = [exists |-> TRUE, content |-> watchlist']
                 /\ \/ \E text \in SessionAddInputs :
                          \E valid \in AddOracles(text) :
                              add_to_watchlist_from_entry(text, valid)
                    \/ \E stock \in SessionRemoveInputs :
                          remove_from_watchlist(stock)]_vars

\* "Bob" has saved the one ticker "Z" and is logged out; the file of "bob"
\* still holds the 24 tickers the disk had
C12_Witness ==
    /\ page = "login"
    /\ current_user = None
    /\ files["Bob"] = [exists |-> TRUE, content |-> << <<"Z">> >>]
    /\ files["bob"] = [exists |-> TRUE, content |-> Base]

-----------------------------------------------------------------------------
(* Indicator functions *)

\* the positions of the code's indices 0 .. Len-1 in the returned column
Rows == 1..Len(args.data)

\* C13: the RSI is 100 at every index where the average loss over the period
\* window is 0, also where the average gain is 0 as well (a flat series); it
\* is never infinite or undefined there.
C13_RsiHundredAtZeroLoss ==
    args.fn = "calculate_rsi"
        => \A i \in Rows :
               avg_loss(Closes, args.period)[i] = Zero
                   => result[1][i] = Hundred

\* two equal closes, period 1: gain and loss of the second point are both 0
\* and the returned value is NaN
C13_Witness ==
    /\ args.fn = "calculate_rsi"
    /\ args.period = 1
    /\ Len(args.data) = 2
    /\ Closes[1] = Closes[2]
    /\ avg_gain(Closes, 1)[2] = Zero
    /\ avg_loss(Closes, 1)[2] = Zero
    /\ IsNaN(result[1][2])

\* what the code does keep of C13: with no loss and some gain in the window
\* the quotient is infinite and the RSI comes out as 100
C13_HundredWhenOnlyGain ==
    args.fn = "calculate_rsi"
        => \A i \in Rows :
               (/\ avg_loss(Closes, args.period)[i] = Zero
                /\ FGt(avg_gain(Closes, args.period)[i], Zero))
                   => result[1][i] = Hundred

\* C14: the RSI is undefined at the code's indices 0 .. period-1 and defined
\* only from index period on: the missing delta of the first point does not
\* count as a zero gain or loss.
C14_RsiUndefinedBeforePeriod ==
    args.fn = "calculate_rsi"
        => \A i \in Rows : i - 1 < args.period => IsNaN(result[1][i])

\* closes 1, 2 with period 2: the value at index 1 is 100
C14_Witness ==
    /\ args.fn = "calculate_rsi"
    /\ args.period = 2
    /\ Len(args.data) = 2
    /\ Closes = << Num(1, 1), Num(2, 1) >>
    /\ result[1][2] = Hundred

\* what the code does keep of C14: nothing is defined before index period-1
C14_UndefinedBeforeWindow ==
    args.fn = "calculate_rsi"
        => \A i \in Rows : i < args.period => IsNaN(result[1][i])

\* C15: every value of the returned ADX, +DI and -DI columns is finite, and
\* at an index where a division is degenerate (the ATR is 0, or +DI + -DI is
\* 0) the returned value is 0.
C15_AdxZeroWhereDegenerate ==
    args.fn = "calculate_adx"
        => \A i \in Rows :
               /\ \A c \in 1..3 : Finite(result[c][i])
               /\ atr(args.data, args.period)[i] = Zero
                      => \A c \in 1..3 : result[c][i] = Zero
               /\ FAdd(plus_di(args.data, args.period)[i],
                       minus_di(args.data, args.period)[i]) = Zero
                      => result[1][i] = Zero

\* period 2, a rise of the high and then flat bars: at the last index the
\* ATR is 0 and the DX undefined, and the ADX returned there is 100
C15_Witness ==
    /\ args.fn = "calculate_adx"
    /\ args.period = 2
    /\ args.data = << [High |-> 1, Low |-> 1, Close |-> 1],
                      [High |-> 2, Low |-> 1, Close |-> 1],
                      [High |-> 1, Low |-> 1, Close |-> 1],
                      [High |-> 1, Low |-> 1, Close |-> 1] >>
    /\ atr(args.data, 2)[4] = Zero
    /\ IsNaN(dx(args.data, 2)[4])
    /\ result[1][4] = Hundred

\* what the code does keep of C15: every returned value is finite, +DI and
\* -DI are 0 where the ATR is 0, and the ADX is 0 where no DX of its window
\* is defined
C15_FiniteOutputs ==
    args.fn = "calculate_adx"
        => \A i \in Rows :
               /\ \A c \in 1..3 : Finite(result[c][i])
               /\ atr(args.data, args.period)[i] = Zero
                      => result[2][i] = Zero /\ result[3][i] = Zero
               /\ (\A j \in Rows : (j <= i /\ j > i - args.period)
                                      => ~IsNum(dx(args.data, args.period)[j]))
                      => result[1][i] = Zero

\* the arithmetic mean of the closes at the code's indices i-window+1 .. i
RECURSIVE CloseSum(_, _, _)
CloseSum(bars, lo, hi) ==
    IF lo > hi THEN 0 ELSE bars[hi].Close + CloseSum(bars, lo, hi - 1)

WindowMean(bars, i, window) == Num(CloseSum(bars, i - window + 1, i), window)

\* C16: SMA(series, window) at index i is the mean of the closes over
\* [i-window+1, i] when i >= window-1 and undefined otherwise; so SMA(s, 1)
\* is s, a series shorter than the window gives an all-undefined column,
\* and so does window = 0.
C16_Sma ==
    args.fn = "sma"
        => /\ Len(result[1]) = Len(args.data)
           /\ \A i \in Rows :
                  result[1][i] = IF args.period > 0 /\ i >= args.period
                                 THEN WindowMean(args.data, i, args.period)
                                 ELSE NaN
           /\ args.period = 1 => result[1] = Closes
           /\ (args.period = 0 \/ Len(args.data) < args.period)
                  => \A i \in Rows : IsNaN(result[1][i])

\* closes 1, 2, 2 with window 2: undefined, 3/2, 2
C16_Witness ==
    /\ args.fn = "sma"
    /\ args.period = 2
    /\ Closes = << Num(1, 1), Num(2, 1), Num(2, 1) >>
    /\ result[1] = << NaN, Num(3, 2), Num(2, 1) >>

\* C17: for span > 0, EMA[0] = close[0] and EMA[i] = a*close[i] +
\* (1-a)*EMA[i-1] with a = 2/(span+1) for every i > 0, so EMA(s, 1) is s;
\* span = 0 gives an all-undefined column.
C17_Ema ==
    args.fn = "ema"
        => /\ Len(result[1]) = Len(args.data)
           /\ args.period = 0 => \A i \in Rows : IsNaN(result[1][i])
           /\ args.period > 0 =>
                  LET a == Num(2, args.period + 1)
                  IN  \A i \in Rows :
                          result[1][i] =
                              IF i = 1 THEN Closes[1]
                              ELSE FAdd(FMul(a, Closes[i]),
                                        FMul(FSub(Num(1, 1), a), result[1][i - 1]))
           /\ args.period = 1 => result[1] = Closes

\* closes 1, 2, 2 with span 2 (a = 2/3): 1, 5/3, 17/9
C17_Witness ==
    /\ args.fn = "ema"
    /\ args.period = 2
    /\ Closes = << Num(1, 1), Num(2, 1), Num(2, 1) >>
    /\ result[1] = << Num(1, 1), Num(5, 3), Num(17, 9) >>

-----------------------------------------------------------------------------
(* News and chart page *)

\* C18: a news fetch that fails, by an answer other than 200 or by a failed
\* request, gives an empty list of articles and is no error: no exception
\* reaches the caller and the home page shows the no-news state.
C18_FetchFailureIsNoNews ==
    (news_state # "constructing"
       /\ (response.kind = "raised" \/ response.status_code # 200))
        => /\ exception = None
           /\ news_state = "done"
           /\ news_labels = <<>>
           /\ no_news_label

\* requests.get raised: the exception left update_news_display and no label
\* was added
C18_Witness ==
    /\ response.kind = "raised"
    /\ news_state = "raised"
    /\ exception = "ConnectionError"
    /\ ~no_news_label

\* what the code does keep of C18: an answer other than 200 is the no-news
\* state without an exception
C18_Non200IsNoNews ==
    (news_state # "constructing"
       /\ response.kind = "answer" /\ response.status_code # 200)
        => /\ exception = None
           /\ news_state = "done"
           /\ news_labels = <<>>
           /\ no_news_label
           /\ ~news_timer

\* C19: the RSI panel and the ADX panel are never both shown: show_rsi and
\* show_adx are never both true; turning one on turns the other off, and
\* turning one off leaves the other as it was.
C19_OnePanel ==
    /\ [](~(show_rsi /\ show_adx))
    /\ [][/\ toggle_rsi => /\ show_rsi' = ~show_rsi
                           /\ show_rsi' => ~show_adx'
                           /\ ~show_rsi' => show_adx' = show_adx
          /\ toggle_adx => /\ show_adx' = ~show_adx
                           /\ show_adx' => ~show_rsi'
                           /\ ~show_adx' => show_rsi' = show_rsi
          /\ (show_rsi' # show_rsi \/ show_adx' # show_adx)
                 => toggle_rsi \/ toggle_adx]_vars

\* the RSI panel is on, the ADX panel is off and the chart drawn shows the RSI
C19_Witness ==
    /\ show_rsi /\ ~show_adx
    /\ data # <<>>
    /\ plot.panel = "RSI"

\* C20: at most three lines are marked displayed, the Close Price line
\* among them (so at most two of the five overlays); a toggle that would turn
\* on a fourth line leaves every flag as it was, and the Close Price flag is
\* never turned off.
C20_AtMostThreeLines ==
    /\ [](active_lines <= 3 /\ displayed_lines["Close Price"]
          /\ Cardinality({n \in LineNames : displayed_lines[n]}) <= 2)
    /\ [][\A line_name \in LineNames :
             toggle_line(line_name) =>
                 /\ displayed_lines[line_name]
                        => displayed_lines' =
                               [displayed_lines EXCEPT ![line_name] = FALSE]
                 /\ (~displayed_lines[line_name] /\ active_lines >= 3)
                        => displayed_lines' = displayed_lines
                 /\ (~displayed_lines[line_name] /\ active_lines < 3)
                        => displayed_lines' =
                               [displayed_lines EXCEPT ![line_name] = TRUE]]_vars

\* two overlays are on next to the Close Price line
C20_Witness ==
    /\ displayed_lines["Close Price"]
    /\ displayed_lines["50-day SMA"]
    /\ displayed_lines["Upper Bollinger Band"]
    /\ active_lines = 3
    /\ data # <<>>

-----------------------------------------------------------------------------
(* Session *)

\* the stored credentials match
Matches(username, password) ==
    username \in DOMAIN users /\ users[username].password = password

\* C21: a failed login changes no state: the current user, the in-memory
\* watchlist, the credential store and every watchlist file are as before;
\* only a successful login sets the current user, to the username that
\* logged in, and only logout clears it.
C21_FailedLoginChangesNothing ==
    [][/\ \A u \in Usernames, p \in Passwords :
              (login(u, p) /\ ~Matches(u, p))
                  => /\ ret' = "False"
                     /\ current_user' = current_user
                     /\ watchlist' = watchlist
                     /\ users' = users
                     /\ files' = files
                     /\ page' = page
       /\ (current_user' # current_user /\ current_user' # None)
              => \E u \in Usernames, p \in Passwords :
                     /\ login(u, p)
                     /\ Matches(u, p)
                     /\ current_user' = u
       /\ \A u \in Usernames, p \in Passwords :
              (login(u, p) /\ Matches(u, p)) => current_user' = u
       /\ (current_user' # current_user /\ current_user' = None)
              => logout]_vars

\* Bob, who is not registered, was refused after bob had logged out: nobody
\* is logged in, the login page shows the error and the watchlist bob left
\* in memory is still there
C21_Witness ==
    /\ page = "login"
    /\ ret = "False"
    /\ login_error = InvalidLogin
    /\ current_user = None
    /\ "Bob" \notin DOMAIN users
    /\ watchlist = Base
    /\ files["bob"] = [exists |-> TRUE, content |-> Base]

====
